---- MODULE Spec2Model ----
(***************************************************************************)
(* Model of gather_data.py: the duplicate-avoiding fetch loops             *)
(* (fetch_cat_facts, fetch_dog_facts) and the ingest loops                 *)
(* (store_cat_facts, store_dog_facts) over the SQLite store facts.db.      *)
(*                                                                         *)
(* A text is a finite sequence of characters.  A JSON field that may be    *)
(* absent (Python None) is a record [some, text].  The database is a       *)
(* record of tables; db is the committed file, conn is what an open        *)
(* connection sees (the committed file plus its uncommitted transaction).  *)
(* The insertion_time column is a wall-clock string that no code reads     *)
(* back; it is not part of a metadata row here.                            *)
(***************************************************************************)
EXTENDS Integers, Sequences, FiniteSets, TLC

\* ------------------------------------------------------------------ bounds
MaxN == 2          \* largest n passed to the fetch functions
MaxTextLen == 2    \* longest text the providers return
MaxBatch == 2      \* longest list a dog response or a direct store call holds
MaxStale == 2      \* largest cat_fact_id of a metadata row left in a reused file

Alphabet == {"a"}
Texts == UNION {[1..k -> Alphabet] : k \in 0..MaxTextLen}

\* ------------------------------------------------------------- JSON values
None == [some |-> FALSE, text |-> <<>>]
Str(t) == [some |-> TRUE, text |-> t]
Values == {None} \cup {Str(t) : t \in Texts}

\* Python truthiness of a str-or-None value: None and "" are falsy.
Truthy(v) == v.some /\ v.text # <<>>

Min(a, b) == IF a < b THEN a ELSE b

\* All orders in which a Python set can be iterated.
Orders(S) == {p \in [1..Cardinality(S) -> S] : \A i, j \in 1..Cardinality(S) : p[i] = p[j] => i = j}

\* --------------------------------------------------------------- provider
\* One cat provider call: a non-200 status, an exception (transport or JSON
\* decoding), or a JSON object whose "fact" field is fact (None when absent).
CatResponses ==
    {[kind |-> "status", fact |-> None], [kind |-> "raise", fact |-> None]}
    \cup {[kind |-> "ok", fact |-> v] : v \in Values}

\* One element of the "data" list of a dog response: an object whose
\* attributes.body is body (None when attributes or body is absent), or an
\* element on which .get raises (not an object, or attributes not an object).
DogEntries ==
    {[kind |-> "malformed", body |-> None]} \cup {[kind |-> "ok", body |-> v] : v \in Values}

DogLists == UNION {[1..k -> DogEntries] : k \in 0..MaxBatch}

DogResponses ==
    {[kind |-> "status", data |-> <<>>], [kind |-> "raise", data |-> <<>>]}
    \cup {[kind |-> "ok", data |-> d] : d \in DogLists}

\* A batch a caller may hand to store_cat_facts / store_dog_facts directly.
Batches == UNION {[1..k -> Values] : k \in 0..MaxBatch}

\* ------------------------------------------------------------------ state
VARIABLES
    db,              \* the committed database file
    conn,            \* the view of the open connection (db + pending changes)
    pc,              \* position of the program
    inMain,          \* TRUE while main() runs, FALSE in a direct store call
    n,               \* the requested count
    existing_facts,  \* texts read from the store before the loop
    new_facts,       \* fetch_cat_facts: the result set
    unique_facts,    \* fetch_dog_facts: the result set
    attempts,        \* the attempt counter
    max_attempts,    \* n * 20
    warned,          \* the shortfall warning was printed by the last fetch
    facts,           \* the batch returned by a fetch / handed to a store
    i,               \* index of the next element of facts in a store loop
    seen,            \* history: what the provider returned in the current fetch
    grew,            \* history: the current flow committed a new row
    ran,             \* history: the previous operation was a complete main()
    orphans          \* history: texts whose fact insert succeeded and whose
                     \* metadata insert failed, in the current store_cat_facts

vars == <<db, conn, pc, inMain, n, existing_facts, new_facts, unique_facts,
          attempts, max_attempts, warned, facts, i, seen, grew, ran, orphans>>

fetchVars == <<n, existing_facts, new_facts, unique_facts, attempts, max_attempts, warned>>

\* ------------------------------------------------------------------ store
EmptyDb ==
    [CatFacts |-> {}, CatFactMetadata |-> {}, DogFacts |-> {},
     sqlite_sequence |-> [CatFacts |-> 0, DogFacts |-> 0]]

\* SELECT fact FROM <table>
SelectFacts(rows) == {r.fact : r \in rows}

\* Mutant: the column is declared without UNIQUE.
UniqueNotDeclared(rows, text) == FALSE

\* fact TEXT UNIQUE
UniqueViolated(rows, text) == \E r \in rows : r.fact = text

\* cat_fact_id INTEGER PRIMARY KEY
PrimaryKeyViolated(rows, id) == \E r \in rows : r.cat_fact_id = id

\* id INTEGER PRIMARY KEY AUTOINCREMENT
NextRowId(seq) == seq + 1

\* Mutant: the length counts a terminator.
FactLengthPlusOne(text) == Len(text) + 1

\* len(text)
FactLength(text) == Len(text)

\* INSERT INTO CatFacts (fact) VALUES (text), the constraint already passed
InsertCatFact(v, text) ==
    LET id == NextRowId(v.sqlite_sequence.CatFacts) IN
    [v EXCEPT !.CatFacts = @ \cup {[id |-> id, fact |-> text]},
              !.sqlite_sequence.CatFacts = id]

\* INSERT INTO CatFactMetadata (cat_fact_id, fact_length, insertion_time)
InsertCatMetadata(v, id, length) ==
    [v EXCEPT !.CatFactMetadata = @ \cup {[cat_fact_id |-> id, fact_length |-> length]}]

\* INSERT INTO DogFacts (fact) VALUES (text), the constraint already passed
InsertDogFact(v, text) ==
    LET id == NextRowId(v.sqlite_sequence.DogFacts) IN
    [v EXCEPT !.DogFacts = @ \cup {[id |-> id, fact |-> text]},
              !.sqlite_sequence.DogFacts = id]

\* Mutant: the commit is missing, the file stays as it was.
CommitMissing(v) == db

\* conn.commit(): the connection's view becomes the file
Commit(v) == v

\* conn.close(): an uncommitted transaction is rolled back
Close(file, v) == file

\* ------------------------------------------------------------- fetch loop
\* max_attempts = n * 20
MaxAttempts(k) == k * 20

\* Mutant: the budget test lets one more attempt through.
LoopContinuesOneMore(result, k, att, cap) == Cardinality(result) < k /\ att <= cap

\* Mutant: the count test lets one more text through.
LoopContinuesOverCount(result, k, att, cap) == Cardinality(result) <= k /\ att < cap

\* while len(new_facts) < n and attempts < max_attempts
LoopContinues(result, k, att, cap) == Cardinality(result) < k /\ att < cap

\* Mutant: the check against the stored texts is missing.
CatAcceptsNoStore(v, existing, result) == Truthy(v) /\ v.text \notin result

\* if fact_text and fact_text not in existing_facts and fact_text not in new_facts
CatAccepts(v, existing, result) ==
    Truthy(v) /\ v.text \notin existing /\ v.text \notin result

\* if text and text not in existing_facts and text not in unique_facts
DogAccepts(v, existing, result) ==
    Truthy(v) /\ v.text \notin existing /\ v.text \notin result

\* for fact in facts_list: ... ; an element on which .get raises ends the
\* loop through the enclosing except clause.
RECURSIVE DogScan(_, _, _, _)
DogScan(data, k, existing, result) ==
    IF k > Len(data) THEN result
    ELSE IF data[k].kind = "malformed" THEN result
    ELSE IF DogAccepts(data[k].body, existing, result)
         THEN DogScan(data, k + 1, existing, result \cup {data[k].body.text})
         ELSE DogScan(data, k + 1, existing, result)

\* Mutant: the non-200 path has no continue and counts the attempt twice.
AttemptsAfterNoContinue(kind, att) == IF kind = "status" THEN att + 2 ELSE att + 1

\* attempts += 1: on the non-200 path (followed by continue) and at the end
\* of the loop body (reached on the normal path and from the except clause)
AttemptsAfter(kind, att) == IF kind = "status" THEN att + 1 ELSE att + 1

\* if len(new_facts) < n: print("Warning: ...")
Shortfall(result, k) == Cardinality(result) < k

\* return [{"fact": fact} for fact in new_facts]
CatResult(result) == {[j \in 1..Len(p) |-> Str(p[j])] : p \in Orders(result)}

\* Mutant: the list is returned without the [:n] slice.
DogResultUnsliced(result, k) == {[j \in 1..Len(p) |-> Str(p[j])] : p \in Orders(result)}

\* return list(unique_facts)[:n]
DogResult(result, k) ==
    {[j \in 1..Min(k, Len(p)) |-> Str(p[j])] : p \in Orders(result)}

\* ---------------------------------------------------------------- history
\* What one provider call showed, relative to the texts read from the store
\* (existing) and the texts collected so far (result):
\*   "known"       it returned a text that is in existing
\*   "new"         it returned a non-empty text that is not in existing
\*   "notAllKnown" it was not a call returning only texts in existing
\*   "notFresh"    it was not a call returning exactly one text that is
\*                 neither in existing nor in result
CatSeen(resp, existing, result) ==
    IF resp.kind = "ok" /\ Truthy(resp.fact)
    THEN IF resp.fact.text \in existing THEN {"known", "notFresh"}
         ELSE IF resp.fact.text \in result THEN {"new", "notAllKnown", "notFresh"}
         ELSE {"new", "notAllKnown"}
    ELSE {"notAllKnown", "notFresh"}

BodyTexts(data) == {data[k].body.text : k \in {j \in 1..Len(data) : Truthy(data[j].body)}}

DogSeen(resp, existing, result) ==
    LET ts == BodyTexts(resp.data)
        wellFormed == \A k \in 1..Len(resp.data) : Truthy(resp.data[k].body)
    IN  (IF ts \cap existing # {} THEN {"known"} ELSE {})
        \cup (IF ts \ existing # {} THEN {"new"} ELSE {})
        \cup (IF resp.kind = "ok" /\ wellFormed /\ ts # {} /\ ts \subseteq existing
              THEN {} ELSE {"notAllKnown"})
        \cup (IF resp.kind = "ok" /\ wellFormed /\ Len(resp.data) = 1
                 /\ ts \cap (existing \cup result) = {}
              THEN {} ELSE {"notFresh"})

AllKnown == attempts > 0 /\ "notAllKnown" \notin seen
AllFresh == attempts > 0 /\ "notFresh" \notin seen

\* ------------------------------------------------------------------- Init
Init ==
    /\ db = EmptyDb
    /\ conn = EmptyDb
    /\ pc = "idle"
    /\ inMain = FALSE
    /\ n = 1
    /\ existing_facts = {}
    /\ new_facts = {}
    /\ unique_facts = {}
    /\ attempts = 0
    /\ max_attempts = 0
    /\ warned = FALSE
    /\ facts = <<>>
    /\ i = 1
    /\ seen = {}
    /\ grew = FALSE
    /\ ran = FALSE
    /\ orphans = {}

\* ---------------------------------------------------------------- actions
\* main(): create_tables() finds the tables (CREATE TABLE IF NOT EXISTS), then
\* fetch_cat_facts(n) reads the stored texts and enters its loop.
Main(k) ==
    /\ pc = "idle"
    /\ pc' = "fetch_cat"
    /\ inMain' = TRUE
    /\ n' = k
    /\ existing_facts' = SelectFacts(db.CatFacts)
    /\ new_facts' = {}
    /\ unique_facts' = {}
    /\ attempts' = 0
    /\ max_attempts' = MaxAttempts(k)
    /\ warned' = FALSE
    /\ facts' = <<>>
    /\ i' = 1
    /\ seen' = {}
    /\ grew' = FALSE
    /\ orphans' = {}
    /\ UNCHANGED <<db, conn, ran>>

\* One iteration of the loop of fetch_cat_facts.
FetchCatAttempt(resp) ==
    /\ pc = "fetch_cat"
    /\ LoopContinues(new_facts, n, attempts, max_attempts)
    /\ new_facts' = IF resp.kind = "ok" /\ CatAccepts(resp.fact, existing_facts, new_facts)
                    THEN new_facts \cup {resp.fact.text}
                    ELSE new_facts
    /\ attempts' = AttemptsAfter(resp.kind, attempts)
    /\ seen' = seen \cup CatSeen(resp, existing_facts, new_facts)
    /\ UNCHANGED <<db, conn, pc, inMain, n, existing_facts, unique_facts, max_attempts,
                   warned, facts, i, grew, ran, orphans>>

\* The loop of fetch_cat_facts ends; main() hands the list to store_cat_facts.
FetchCatReturn ==
    /\ pc = "fetch_cat"
    /\ ~LoopContinues(new_facts, n, attempts, max_attempts)
    /\ warned' = Shortfall(new_facts, n)
    /\ facts' \in CatResult(new_facts)
    /\ i' = 1
    /\ pc' = "store_cat"
    /\ conn' = db
    /\ orphans' = {}
    /\ UNCHANGED <<db, inMain, n, existing_facts, new_facts, unique_facts, attempts,
                   max_attempts, seen, grew, ran>>

\* A direct call store_cat_facts(batch).
StoreCatCall(batch) ==
    /\ pc = "idle"
    /\ pc' = "store_cat"
    /\ inMain' = FALSE
    /\ facts' = batch
    /\ i' = 1
    /\ conn' = db
    /\ grew' = FALSE
    /\ ran' = FALSE
    /\ orphans' = {}
    /\ seen' = {}
    /\ UNCHANGED <<db, fetchVars>>

\* One iteration of the loop of store_cat_facts.
StoreCatFact ==
    /\ pc = "store_cat"
    /\ i <= Len(facts)
    /\ i' = i + 1
    /\ LET v == facts[i] IN
       IF ~v.some \/ UniqueViolated(conn.CatFacts, v.text)
       THEN UNCHANGED <<db, conn, grew, orphans>>
       ELSE LET c1 == InsertCatFact(conn, v.text)
                new_id == c1.sqlite_sequence.CatFacts
            IN  IF PrimaryKeyViolated(c1.CatFactMetadata, new_id)
                THEN /\ conn' = c1
                     /\ orphans' = orphans \cup {v.text}
                     /\ UNCHANGED <<db, grew>>
                ELSE LET c2 == InsertCatMetadata(c1, new_id, FactLength(v.text)) IN
                     /\ conn' = c2
                     /\ db' = Commit(c2)
                     /\ grew' = TRUE
                     /\ UNCHANGED orphans
    /\ UNCHANGED <<pc, inMain, fetchVars, facts, seen, ran>>

\* conn.close() at the end of store_cat_facts.
StoreCatClose ==
    /\ pc = "store_cat"
    /\ i > Len(facts)
    /\ conn' = Close(db, conn)
    /\ pc' = IF inMain THEN "cat_done" ELSE "idle"
    /\ UNCHANGED <<db, inMain, fetchVars, facts, i, seen, grew, ran, orphans>>

\* main() calls fetch_dog_facts(n): the stored texts are read, the loop begins.
FetchDogStart ==
    /\ pc = "cat_done"
    /\ pc' = "fetch_dog"
    /\ existing_facts' = SelectFacts(db.DogFacts)
    /\ unique_facts' = {}
    /\ new_facts' = {}
    /\ attempts' = 0
    /\ max_attempts' = MaxAttempts(n)
    /\ warned' = FALSE
    /\ facts' = <<>>
    /\ i' = 1
    /\ seen' = {}
    /\ grew' = FALSE
    /\ orphans' = {}
    /\ UNCHANGED <<db, conn, inMain, n, ran>>

\* One iteration of the loop of fetch_dog_facts.
FetchDogAttempt(resp) ==
    /\ pc = "fetch_dog"
    /\ LoopContinues(unique_facts, n, attempts, max_attempts)
    /\ unique_facts' = IF resp.kind = "ok"
                       THEN DogScan(resp.data, 1, existing_facts, unique_facts)
                       ELSE unique_facts
    /\ attempts' = AttemptsAfter(resp.kind, attempts)
    /\ seen' = seen \cup DogSeen(resp, existing_facts, unique_facts)
    /\ UNCHANGED <<db, conn, pc, inMain, n, existing_facts, new_facts, max_attempts,
                   warned, facts, i, grew, ran, orphans>>

\* The loop of fetch_dog_facts ends; main() hands the list to store_dog_facts.
FetchDogReturn ==
    /\ pc = "fetch_dog"
    /\ ~LoopContinues(unique_facts, n, attempts, max_attempts)
    /\ warned' = Shortfall(unique_facts, n)
    /\ facts' \in DogResult(unique_facts, n)
    /\ i' = 1
    /\ pc' = "store_dog"
    /\ conn' = db
    /\ UNCHANGED <<db, inMain, n, existing_facts, new_facts, unique_facts, attempts,
                   max_attempts, seen, grew, ran, orphans>>

\* A direct call store_dog_facts(batch).
StoreDogCall(batch) ==
    /\ pc = "idle"
    /\ pc' = "store_dog"
    /\ inMain' = FALSE
    /\ facts' = batch
    /\ i' = 1
    /\ conn' = db
    /\ grew' = FALSE
    /\ ran' = FALSE
    /\ orphans' = {}
    /\ seen' = {}
    /\ UNCHANGED <<db, fetchVars>>

\* One iteration of the loop of store_dog_facts.
StoreDogFact ==
    /\ pc = "store_dog"
    /\ i <= Len(facts)
    /\ i' = i + 1
    /\ LET v == facts[i] IN
       IF ~v.some \/ UniqueViolated(conn.DogFacts, v.text)
       THEN UNCHANGED <<db, conn, grew>>
       ELSE LET c1 == InsertDogFact(conn, v.text) IN
            /\ conn' = c1
            /\ db' = Commit(c1)
            /\ grew' = TRUE
    /\ UNCHANGED <<pc, inMain, fetchVars, facts, seen, ran, orphans>>

\* conn.close() at the end of store_dog_facts.
StoreDogClose ==
    /\ pc = "store_dog"
    /\ i > Len(facts)
    /\ conn' = Close(db, conn)
    /\ pc' = IF inMain THEN "main_done" ELSE "idle"
    /\ UNCHANGED <<db, inMain, fetchVars, facts, i, seen, grew, ran, orphans>>

\* main() prints the completion message and returns.
MainExit ==
    /\ pc = "main_done"
    /\ pc' = "idle"
    /\ inMain' = FALSE
    /\ ran' = TRUE
    /\ n' = 1
    /\ existing_facts' = {}
    /\ new_facts' = {}
    /\ unique_facts' = {}
    /\ attempts' = 0
    /\ max_attempts' = 0
    /\ warned' = FALSE
    /\ facts' = <<>>
    /\ i' = 1
    /\ seen' = {}
    /\ grew' = FALSE
    /\ orphans' = {}
    /\ UNCHANGED <<db, conn>>

Next ==
    \/ \E k \in 1..MaxN : Main(k)
    \/ \E resp \in CatResponses : FetchCatAttempt(resp)
    \/ FetchCatReturn
    \/ \E batch \in Batches : StoreCatCall(batch)
    \/ StoreCatFact
    \/ StoreCatClose
    \/ FetchDogStart
    \/ \E resp \in DogResponses : FetchDogAttempt(resp)
    \/ FetchDogReturn
    \/ \E batch \in Batches : StoreDogCall(batch)
    \/ StoreDogFact
    \/ StoreDogClose
    \/ MainExit

Spec == Init /\ [][Next]_vars

\* The program is single-threaded and every provider call and store access is
\* synchronous: a loop that can take its next step takes it.
FairSpec ==
    /\ Spec
    /\ WF_vars(\E resp \in CatResponses : FetchCatAttempt(resp))
    /\ WF_vars(FetchCatReturn)
    /\ WF_vars(\E resp \in DogResponses : FetchDogAttempt(resp))
    /\ WF_vars(FetchDogReturn)

\* facts.db outlives the process, and create_tables keeps whatever tables it
\* finds (CREATE TABLE IF NOT EXISTS).  A file whose CatFacts table was
\* dropped and re-created while CatFactMetadata was kept holds a metadata row
\* for an identifier that CatFacts will assign again.
StaleDbs ==
    {[EmptyDb EXCEPT !.CatFactMetadata = {[cat_fact_id |-> id, fact_length |-> 0]}] :
        id \in 1..MaxStale}

InitStale ==
    /\ db \in StaleDbs
    /\ conn = db
    /\ pc = "idle"
    /\ inMain = FALSE
    /\ n = 1
    /\ existing_facts = {}
    /\ new_facts = {}
    /\ unique_facts = {}
    /\ attempts = 0
    /\ max_attempts = 0
    /\ warned = FALSE
    /\ facts = <<>>
    /\ i = 1
    /\ seen = {}
    /\ grew = FALSE
    /\ ran = FALSE
    /\ orphans = {}

SpecStale == InitStale /\ [][Next]_vars

\* ------------------------------------------------------------- properties
\* The list a fetch returned, at the moment main() hands it to the store.
CatReturned == pc = "store_cat" /\ inMain /\ i = 1
DogReturned == pc = "store_dog" /\ inMain /\ i = 1
Returned == CatReturned \/ DogReturned

BatchTexts(batch) == {batch[j].text : j \in {k \in 1..Len(batch) : batch[k].some}}

\* The rows of the table the running fetch / store works on.
Table == IF pc \in {"fetch_cat", "store_cat", "cat_done"} THEN db.CatFacts ELSE db.DogFacts

UniqueTexts(rows) == \A r1, r2 \in rows : r1.fact = r2.fact => r1 = r2

\* C1 (dedup correctness): the list returned by fetch_cat_facts and by
\* fetch_dog_facts holds no text that the category's table held when the
\* loop started, whatever the provider returned.
C1_Dedup ==
    Returned =>
        /\ existing_facts = SelectFacts(Table)
        /\ BatchTexts(facts) \cap existing_facts = {}

\* C1 happens: the provider returned a stored text, and a list came back.
C1_Witness == Returned /\ "known" \in seen /\ facts # <<>>

\* C2 (store uniqueness): no two rows of a category hold the same text, in
\* the committed file and in the view of an open connection.
C2_StoreUnique ==
    /\ UniqueTexts(db.CatFacts) /\ UniqueTexts(db.DogFacts)
    /\ UniqueTexts(conn.CatFacts) /\ UniqueTexts(conn.DogFacts)

\* C2 happens: a batch that repeats a text was stored, and the text is held
\* once in each category.
C2_Witness ==
    /\ pc = "store_cat" /\ ~inMain /\ Len(facts) = 2 /\ i = 3
    /\ facts[1].some /\ facts[1] = facts[2]
    /\ facts[1].text \in SelectFacts(db.CatFacts)
    /\ facts[1].text \in SelectFacts(db.DogFacts)

\* C9 (output bound): the list returned by a fetch holds between 0 and n
\* texts, pairwise distinct and non-empty.
C9_OutputBound ==
    Returned =>
        /\ Len(facts) <= n
        /\ \A j \in 1..Len(facts) : Truthy(facts[j])
        /\ \A j, k \in 1..Len(facts) : facts[j] = facts[k] => j = k

\* C9 happens: a dog call brought more novel texts than slots were open.
C9_Witness == DogReturned /\ Cardinality(unique_facts) > n /\ Len(facts) = n

\* C4 (budget termination): when every provider call returned only texts
\* the store already held, the loop ended after exactly n * 20 attempts, an
\* empty list came back, the shortfall warning was printed, and main() went
\* on to the store.
C4_BudgetTermination ==
    (Returned /\ AllKnown) =>
        /\ attempts = n * 20
        /\ facts = <<>>
        /\ warned

\* C4 happens: a cat fetch for two facts met only stored texts.
C4_Witness == CatReturned /\ AllKnown /\ n = 2 /\ existing_facts # {}

\* C5 (exact-count success): when every provider call returned exactly one
\* text that was neither stored nor collected before, the list holds n texts
\* after n attempts and no warning was printed.
C5_ExactCount ==
    (Returned /\ AllFresh) =>
        /\ Len(facts) = n
        /\ attempts = n
        /\ ~warned

\* C5 happens: a cat fetch for two facts met two fresh texts.
C5_Witness == CatReturned /\ AllFresh /\ n = 2

\* C7 (metadata consistency): from the empty store, every committed
\* CatFacts row has exactly one CatFactMetadata row with its id, holding the
\* length of its text; no metadata insert has failed.
C7_MetadataConsistent ==
    /\ \A r \in db.CatFacts :
          {m \in db.CatFactMetadata : m.cat_fact_id = r.id}
              = {[cat_fact_id |-> r.id, fact_length |-> Len(r.fact)]}
    /\ \A m \in db.CatFactMetadata : \E r \in db.CatFacts : r.id = m.cat_fact_id
    /\ \A r \in db.CatFacts : r.id <= db.sqlite_sequence.CatFacts
    /\ orphans = {}

\* C7 happens: two cat facts of different lengths are stored with metadata.
C7_Witness ==
    /\ Cardinality(db.CatFacts) = 2
    /\ Cardinality({m.fact_length : m \in db.CatFactMetadata}) = 2

\* C8 as claimed (per-fact commit independence): once store_cat_facts has
\* closed its connection, every text whose fact insert succeeded and whose
\* metadata insert failed is a committed CatFacts row.
C8_OrphanPersisted ==
    (pc \in {"idle", "cat_done"} /\ orphans # {}) =>
        orphans \subseteq SelectFacts(db.CatFacts)

\* C8, the other half: a commit writes the current fact only, so a row whose
\* metadata insert failed is not written by the commit of a later fact.
C8_NotCarried ==
    [][(pc = "store_cat" /\ orphans' = orphans)
          => SelectFacts(db'.CatFacts) \cap orphans = SelectFacts(db.CatFacts) \cap orphans]_vars

\* C10 as claimed (batch filtering): in one dog provider call every
\* well-formed text of the list that is neither stored nor collected is
\* added to the result set, whatever the other elements are, and the
\* attempt counter grows by one.
C10_BatchIndependent ==
    [][\A resp \in DogResponses :
          (FetchDogAttempt(resp) /\ resp.kind = "ok")
              => /\ BodyTexts(resp.data) \ existing_facts \subseteq unique_facts'
                 /\ attempts' = attempts + 1]_vars

\* C6 as claimed (idempotent re-run): a main() run that follows a main() run
\* inserts no row.
C6_SecondRunInsertsNothing ==
    (ran /\ pc \in {"cat_done", "main_done"}) => ~grew

\* C6 amended: from the empty store, when a fetch+ingest flow of main() has
\* ended, every text the fetch collected has exactly one row, the table holds
\* the texts it held before and the collected ones and no others, no text
\* has two rows, and a flow in which the provider returned no non-empty text
\* outside the store inserted no row.
C6_IdempotentFlow ==
    (pc \in {"cat_done", "main_done"}) =>
        /\ SelectFacts(Table) = existing_facts \cup BatchTexts(facts)
        /\ Cardinality(Table) = Cardinality(existing_facts) + Len(facts)
        /\ UniqueTexts(Table)
        /\ ("new" \notin seen => ~grew /\ facts = <<>>)

\* C6 happens: a second run, offered only stored texts, has ended with the
\* store as large as before.
C6_Witness ==
    /\ ran /\ pc = "main_done" /\ AllKnown /\ ~grew
    /\ Cardinality(db.CatFacts) = 2

\* One more iteration of a fetch loop was taken.
LoopStep == pc \in {"fetch_cat", "fetch_dog"} /\ pc' = pc

\* A fetch loop was left.
LoopExit == pc \in {"fetch_cat", "fetch_dog"} /\ pc' # pc

Result == IF pc = "fetch_cat" THEN new_facts ELSE unique_facts

\* C3 (bounded termination), the steps: an iteration is taken only while
\* the result holds fewer than n texts and fewer than n * 20 attempts were
\* made; it adds exactly one to the attempt counter, which never passes
\* n * 20; it never removes a text, and a cat iteration adds at most one.
\* The loop is left only when the result holds n texts (at least n in the
\* batch variant) or the counter equals n * 20.
C3_Steps ==
    [][/\ LoopStep =>
            /\ Cardinality(Result) < n /\ attempts < n * 20
            /\ attempts' = attempts + 1
            /\ attempts' <= n * 20
            /\ Result \subseteq Result'
            /\ pc = "fetch_cat" => Cardinality(new_facts') <= Cardinality(new_facts) + 1
       /\ LoopExit =>
            \/ attempts = n * 20
            \/ (pc = "fetch_cat" /\ Cardinality(new_facts) = n)
            \/ (pc = "fetch_dog" /\ Cardinality(unique_facts) >= n)]_vars

\* C3, the duplicate: a cat call that returns a stored or an already
\* collected text uses up one attempt and leaves the result as it was.
C3_Duplicate ==
    [][\A t \in existing_facts \cup new_facts :
          FetchCatAttempt([kind |-> "ok", fact |-> Str(t)])
              => new_facts' = new_facts /\ attempts' = attempts + 1]_vars

\* C3, the end: every fetch loop that was entered is left.
C3_Terminates ==
    /\ (pc = "fetch_cat") ~> (pc = "store_cat")
    /\ (pc = "fetch_dog") ~> (pc = "store_dog")

\* C3 (bounded termination): at most n * 20 provider calls, one attempt
\* each, and the loop ends.
C3_BoundedTermination == C3_Steps /\ C3_Duplicate /\ C3_Terminates

\* C3 happens: a fetch for two facts used its whole budget; the provider
\* returned stored texts and a new one, and one call failed.
C3_Witness ==
    /\ Returned /\ n = 2 /\ attempts = 40 /\ Len(facts) = 1
    /\ {"known", "new", "notFresh"} \subseteq seen

====
